---------------------------- MODULE Spec2Model ----------------------------
(***************************************************************************)
(* Model of the AI retry helper of src/lib/ai-retry.ts: withAIRetry and    *)
(* its wrapper generateObjectWithAIRetry.                                  *)
(*                                                                         *)
(* One invocation is an async function frame.  JavaScript runs a frame     *)
(* from one await to the next without interruption, so every action below  *)
(* is one such run: the call of the function up to its first await, the    *)
(* settling of an awaited call up to the next await (or the return or the  *)
(* throw), and the firing of the backoff timer up to the next await.       *)
(*                                                                         *)
(* Temperatures are in tenths (5 is 0.5), delays in milliseconds.  An      *)
(* optional argument is a sequence of length at most one: <<>> when the    *)
(* caller omits it, <<v>> when the caller passes v.  A model is a string;  *)
(* "undefined" is an omitted model and "null" a falsy one.                 *)
(*                                                                         *)
(* Further down: the call sites of the helper and the server actions of    *)
(* src/actions/insurance-analyzer.ts (SpecCallSites), the two plan-fetching *)
(* scripts (SpecScripts) and RequiredHealthcareModal (SpecModal).  Each is *)
(* a specification of its own over the same variables; the variables it    *)
(* does not use stay at their initial value.                               *)
(***************************************************************************)
EXTENDS Integers, Sequences, FiniteSets, TLC

VARIABLES
    args,   \* args[i]: what the caller of invocation i passed
    inv,    \* inv[i]: the frame of invocation i, its pending calls and timers, its history
    act,    \* the function of the repository that calls the retry helper, and its frame
    script, \* the frame of a plan-fetching script and the API it talks to
    modal   \* RequiredHealthcareModal: its state, its hook's state and localStorage

vars == <<args, inv, act, script, modal>>

---------------------------------------------------------------------------
(* Bounds of the model *)

\* longest temperature list a caller passes
MaxTemps == 4

\* largest maxAttempts a caller passes
MaxAttemptsArg == 4

\* most plans an API holds
MaxPlans == 45

\* most times the page is reloaded
MaxReloads == 4

\* most scenarios the model generates for one request
MaxScenarios == 2

\* most pages of an uploaded document that hold a services table
MaxServicePages == 2

\* most generateCategories requests PolicyAnalysis issues in one run
MaxRequests == 3

\* deepest breadcrumb path followed
MaxDepth == 2

---------------------------------------------------------------------------
(* The caller's arguments *)

TempPool == {5, 7}

DelayPool == {250}

RECURSIVE SeqsUpTo(_, _)
SeqsUpTo(S, n) ==
    IF n = 0 THEN {<<>>}
    ELSE LET shorter == SeqsUpTo(S, n - 1)
         IN  shorter \cup {Append(q, x) : q \in {r \in shorter : Len(r) = n - 1}, x \in S}

Optional(S) == {<<>>} \cup {<<x>> : x \in S}

\* AIRetryOptions, as a caller of withAIRetry may pass them
AIRetryOptions ==
    [entry        : {"withAIRetry"},
     maxAttempts  : Optional(0..MaxAttemptsArg),
     delayMs      : Optional(DelayPool),
     temperatures : Optional(SeqsUpTo(TempPool, MaxTemps)),
     backupModel  : {"undefined", "null", "callerBackup"},
     model        : {"undefined"}]

\* the argument object of generateObjectWithAIRetry: it has no maxAttempts,
\* delayMs or temperatures
GenerateObjectArgs ==
    [entry        : {"generateObjectWithAIRetry"},
     maxAttempts  : {<<>>},
     delayMs      : {<<>>},
     temperatures : {<<>>},
     backupModel  : {"undefined", "null", "callerBackup"},
     model        : {"undefined", "callerModel"}]

Args == AIRetryOptions \cup GenerateObjectArgs

---------------------------------------------------------------------------
(* Defaults *)

DefaultMaxAttempts == 3

DefaultDelayMs == 1000

DefaultTemperatures == <<5, 7, 9>>

DefaultBackupModel == "groq:meta-llama/llama-4-scout-17b-16e-instruct"

GenerateObjectTemperatures == <<5, 7, 9, 3>>

GenerateObjectDefaultModel == "anthropic:claude-sonnet-4-20250514"

GenerateObjectDefaultBackupModel == "anthropic:claude-sonnet-4-20250514"

BackupTemperature == 5

\* a destructuring default: it applies when the property is undefined only
OrDefault(opt, d) == IF opt = <<>> THEN d ELSE opt[1]

\* ModelOrDefault with no default
ModelOrDefault_None(m, d) == m

\* the destructuring default of a model
ModelOrDefault(m, d) == IF m = "undefined" THEN d ELSE m

\* JavaScript truthiness of a model value
Truthy(m) == m \notin {"undefined", "null"}

\* the options object generateObjectWithAIRetry hands to withAIRetry
GenerateObjectOptions(a) ==
    [entry        |-> a.entry,
     maxAttempts  |-> <<>>,
     delayMs      |-> <<>>,
     temperatures |-> <<GenerateObjectTemperatures>>,
     backupModel  |-> ModelOrDefault(a.backupModel, GenerateObjectDefaultBackupModel),
     model        |-> ModelOrDefault(a.model, GenerateObjectDefaultModel)]

\* the options withAIRetry receives from the entry point the caller used
OptionsOf(a) ==
    IF a.entry = "generateObjectWithAIRetry" THEN GenerateObjectOptions(a) ELSE a

---------------------------------------------------------------------------
(* Events of an invocation's history *)

\* ev: "call" (an underlying call starts), "resolve" / "reject" (call n settles),
\* "notify" (console.error and toast for attempt n), "sleep" (a timer of n ms
\* is set), "wake" (timer n fires)
Ev(ev, role, temp, model, used, n, msg) ==
    [ev |-> ev, role |-> role, temp |-> temp, model |-> model, used |-> used,
     n |-> n, msg |-> msg]

NoError == "undefined"

\* (lastError as Error)?.message || 'Unknown error'
Message(e) == IF e \in {NoError, ""} THEN "Unknown error" ELSE e

NoTerminalError == [attempts |-> 0, backup |-> FALSE, cause |-> ""]

\* the frame before the function is called
Idle ==
    [pc |-> "idle", maxAttempts |-> 0, delayMs |-> 0, temperatures |-> <<>>,
     backupModel |-> "undefined", model |-> "undefined", entry |-> "withAIRetry",
     it |-> 1, temperature |-> 0, attemptCount |-> 0, lastError |-> NoError,
     awaiting |-> 0, calls |-> {}, timers |-> {}, trace |-> <<>>,
     result |-> 0, error |-> NoTerminalError]

---------------------------------------------------------------------------
(* The function withAIRetry calls *)

\* what the model endpoint does with one call
RawOutcomes(entry) ==
    IF entry = "generateObjectWithAIRetry"
    THEN {"valid", "invalid", "network"}
    ELSE {"ok", "boom", ""}

\* generateObject of the SDK, as the wrapper awaits it: it resolves with an
\* object that passed the schema and rejects otherwise
generateObject(raw) ==
    CASE raw = "valid"   -> [ok |-> TRUE,  msg |-> ""]
      [] raw = "invalid" -> [ok |-> FALSE, msg |-> "response did not match schema"]
      [] OTHER           -> [ok |-> FALSE, msg |-> "fetch failed"]

\* GenerateObjectFn handing back whatever object the endpoint produced
GenerateObjectFn_Unvalidated(raw) ==
    [ok |-> raw # "network", msg |-> IF raw = "network" THEN "fetch failed" ELSE ""]

\* the arrow function generateObjectWithAIRetry passes as fn: the awaited
\* generateObject's .object, or its rejection
GenerateObjectFn(raw) == generateObject(raw)

\* a caller's own fn: it resolves, or rejects with an error (message raw)
CallerFn(raw) == [ok |-> raw = "ok", msg |-> IF raw = "ok" THEN "" ELSE raw]

Fn(entry, raw) ==
    IF entry = "generateObjectWithAIRetry" THEN GenerateObjectFn(raw) ELSE CallerFn(raw)

\* model: fallbackModel || model
UsedModel(s, modelArg) ==
    IF s.entry = "generateObjectWithAIRetry"
    THEN IF Truthy(modelArg) THEN modelArg ELSE s.model
    ELSE "fn"

---------------------------------------------------------------------------
(* withAIRetry, one run between awaits per operator; s is the frame *)

\* fn(temperature, model?) is called and awaited
CallFn(s, role, temp, modelArg) ==
    LET id == Len(s.trace) + 1
    IN  [s EXCEPT !.trace = Append(@, Ev("call", role, temp, modelArg,
                                         UsedModel(s, modelArg), s.attemptCount, "")),
                  !.calls = @ \cup {id},
                  !.awaiting = id,
                  !.pc = IF role = "primary" THEN "awaitPrimary" ELSE "awaitBackup"]

\* ThrowTerminal reporting the configured maxAttempts as the attempts made
ThrowTerminal_ReportsMaxAttempts(s) ==
    [s EXCEPT !.pc = "thrown",
              !.awaiting = 0,
              !.error = [attempts |-> s.maxAttempts,
                         backup   |-> Truthy(s.backupModel),
                         cause    |-> Message(s.lastError)]]

\* the throw after the loop
ThrowTerminal(s) ==
    [s EXCEPT !.pc = "thrown",
              !.awaiting = 0,
              !.error = [attempts |-> s.attemptCount,
                         backup   |-> Truthy(s.backupModel),
                         cause    |-> Message(s.lastError)]]

\* NextIteration with every attempt made at the list's first temperature
NextIteration_Repeat(s) ==
    IF s.it > Len(s.temperatures) THEN ThrowTerminal(s)
    ELSE LET t == [s EXCEPT !.temperature = s.temperatures[1], !.it = @ + 1]
         IN  IF t.attemptCount >= t.maxAttempts THEN ThrowTerminal(t)
             ELSE CallFn([t EXCEPT !.attemptCount = @ + 1], "primary",
                         t.temperature, "undefined")

\* NextIteration with the attempt counter kept outside the function, one for
\* all invocations
NextIteration_SharedCounter(s) ==
    LET shared == Cardinality(UNION {{j} \X (1..inv[j].attemptCount) : j \in DOMAIN inv})
    IN  IF s.it > Len(s.temperatures) THEN ThrowTerminal(s)
        ELSE LET t == [s EXCEPT !.temperature = s.temperatures[s.it], !.it = @ + 1]
             IN  IF shared >= t.maxAttempts THEN ThrowTerminal(t)
                 ELSE CallFn([t EXCEPT !.attemptCount = @ + 1], "primary",
                             t.temperature, "undefined")

\* NextIteration without the break on maxAttempts
NextIteration_NoBreak(s) ==
    IF s.it > Len(s.temperatures) THEN ThrowTerminal(s)
    ELSE LET t == [s EXCEPT !.temperature = s.temperatures[s.it], !.it = @ + 1]
         IN  CallFn([t EXCEPT !.attemptCount = @ + 1], "primary", t.temperature, "undefined")

\* one step of the for-of loop: the iterator's next element, the break on
\* maxAttempts, the count and the primary call
NextIteration(s) ==
    IF s.it > Len(s.temperatures) THEN ThrowTerminal(s)
    ELSE LET t == [s EXCEPT !.temperature = s.temperatures[s.it], !.it = @ + 1]
         IN  IF t.attemptCount >= t.maxAttempts THEN ThrowTerminal(t)
             ELSE CallFn([t EXCEPT !.attemptCount = @ + 1], "primary",
                         t.temperature, "undefined")

\* Return without the return: the value is awaited and the loop goes on
Return_FallThrough(s, id) == NextIteration([s EXCEPT !.result = id])

\* return await fn(...)
Return(s, id) == [s EXCEPT !.pc = "returned", !.awaiting = 0, !.result = id]

\* the destructuring of the options, the two locals and the loop's first step
Enter(a) ==
    LET o == OptionsOf(a)
    IN  NextIteration(
          [Idle EXCEPT !.entry        = o.entry,
                       !.model        = o.model,
                       !.maxAttempts  = OrDefault(o.maxAttempts, DefaultMaxAttempts),
                       !.delayMs      = OrDefault(o.delayMs, DefaultDelayMs),
                       !.temperatures = OrDefault(o.temperatures, DefaultTemperatures),
                       !.backupModel  = ModelOrDefault(o.backupModel, DefaultBackupModel)])

RECURSIVE Pow2(_)
Pow2(n) == IF n = 0 THEN 1 ELSE 2 * Pow2(n - 1)

\* Backoff with a delay that doubles with each attempt
Backoff_Exponential(s) ==
    LET ms == s.delayMs * Pow2(s.attemptCount - 1)
        id == Len(s.trace) + 2
    IN  [s EXCEPT !.trace = @ \o <<Ev("notify", "primary", s.temperature, "", "",
                                      s.attemptCount, ""),
                                   Ev("sleep", "primary", s.temperature, "", "", ms, "")>>,
                  !.timers = @ \cup {id},
                  !.awaiting = id,
                  !.pc = "sleeping"]

\* Backoff with the timer's promise not awaited: the loop goes on at once
Backoff_NotAwaited(s) ==
    LET ms == s.delayMs * s.attemptCount
        id == Len(s.trace) + 2
    IN  NextIteration(
          [s EXCEPT !.trace = @ \o <<Ev("notify", "primary", s.temperature, "", "",
                                        s.attemptCount, ""),
                                     Ev("sleep", "primary", s.temperature, "", "", ms, "")>>,
                    !.timers = @ \cup {id}])

\* Backoff awaiting a promise that no timer resolves
Backoff_NeverWakes(s) ==
    [s EXCEPT !.trace = @ \o <<Ev("notify", "primary", s.temperature, "", "",
                                  s.attemptCount, ""),
                               Ev("sleep", "primary", s.temperature, "", "",
                                  s.delayMs * s.attemptCount, "")>>,
              !.awaiting = Len(s.trace) + 2,
              !.pc = "sleeping"]

\* the log, the toast and the awaited setTimeout
Backoff(s) ==
    LET ms == s.delayMs * s.attemptCount
        id == Len(s.trace) + 2
    IN  [s EXCEPT !.trace = @ \o <<Ev("notify", "primary", s.temperature, "", "",
                                      s.attemptCount, ""),
                                   Ev("sleep", "primary", s.temperature, "", "", ms, "")>>,
                  !.timers = @ \cup {id},
                  !.awaiting = id,
                  !.pc = "sleeping"]

\* OnPrimaryReject with the backup called at the failed attempt's temperature
OnPrimaryReject_BackupAtLoopTemperature(s, err) ==
    LET t == [s EXCEPT !.lastError = err]
    IN  IF t.attemptCount = t.maxAttempts
        THEN IF Truthy(t.backupModel)
             THEN CallFn(t, "backup", t.temperature, t.backupModel)
             ELSE ThrowTerminal(t)
        ELSE Backoff(t)

\* the catch of a primary attempt
OnPrimaryReject(s, err) ==
    LET t == [s EXCEPT !.lastError = err]
    IN  IF t.attemptCount = t.maxAttempts
        THEN IF Truthy(t.backupModel)
             THEN CallFn(t, "backup", BackupTemperature, t.backupModel)
             ELSE ThrowTerminal(t)
        ELSE Backoff(t)

\* OnBackupReject with the backup's error dropped
OnBackupReject_KeepsPrimaryError(s, err) == ThrowTerminal(s)

\* the catch of the backup call, and the break
OnBackupReject(s, err) == ThrowTerminal([s EXCEPT !.lastError = err])

\* the continuation of the frame when the promise it awaits settles
Continue(s, id, r) ==
    CASE s.pc = "awaitPrimary" -> IF r.ok THEN Return(s, id) ELSE OnPrimaryReject(s, r.msg)
      [] s.pc = "awaitBackup"  -> IF r.ok THEN Return(s, id) ELSE OnBackupReject(s, r.msg)
      [] s.pc = "sleeping"     -> NextIteration(s)
      [] OTHER                 -> s

\* call id settles with r: the promise is settled and the frame, if it awaits
\* this promise, runs on
Settle(s, id, raw, r) ==
    LET c == s.trace[id]
        t == [s EXCEPT !.calls = @ \ {id},
                       !.trace = Append(@, Ev(IF r.ok THEN "resolve" ELSE "reject",
                                              c.role, c.temp, c.model, raw, id, r.msg))]
    IN  IF s.awaiting = id THEN Continue([t EXCEPT !.awaiting = 0], id, r) ELSE t

\* timer id fires
Fire(s, id) ==
    LET t == [s EXCEPT !.timers = @ \ {id},
                       !.trace = Append(@, Ev("wake", "primary", s.trace[id].temp, "", "",
                                              id, ""))]
    IN  IF s.awaiting = id THEN Continue([t EXCEPT !.awaiting = 0], id, [ok |-> TRUE, msg |-> ""])
        ELSE t

---------------------------------------------------------------------------
(* The state machine *)

\* the retry helper called by a caller that is not modelled
NoCaller == [name |-> "none", pc |-> "idle", value |-> "undefined", text |-> "none"]

\* no script is running
NoScript == [name |-> "none"]

\* the page does not hold the modal
NoModal == [mounted |-> FALSE]

Invocations == DOMAIN inv

TypeOK ==
    /\ args \in [Invocations -> Args]
    /\ \A i \in Invocations :
          inv[i].pc \in {"idle", "awaitPrimary", "awaitBackup", "sleeping",
                         "returned", "thrown"}

Init ==
    /\ args \in [{1} -> Args]
    /\ inv = [i \in {1} |-> Idle]
    /\ act = NoCaller
    /\ script = NoScript
    /\ modal = NoModal

\* the caller calls withAIRetry or generateObjectWithAIRetry
Invoke(i) ==
    /\ inv[i].pc = "idle"
    /\ inv' = [inv EXCEPT ![i] = Enter(args[i])]
    /\ UNCHANGED <<args, act, script, modal>>

SettleCall(i, role, ok) ==
    \E id \in inv[i].calls, raw \in RawOutcomes(inv[i].entry) :
        /\ inv[i].trace[id].role = role
        /\ Fn(inv[i].entry, raw).ok = ok
        /\ inv' = [inv EXCEPT ![i] = Settle(inv[i], id, raw, Fn(inv[i].entry, raw))]
        /\ UNCHANGED <<args, act, script, modal>>

\* a primary attempt's promise resolves
PrimaryResolve(i) == SettleCall(i, "primary", TRUE)

\* a primary attempt's promise rejects
PrimaryReject(i) == SettleCall(i, "primary", FALSE)

\* the backup call's promise resolves
BackupResolve(i) == SettleCall(i, "backup", TRUE)

\* the backup call's promise rejects
BackupReject(i) == SettleCall(i, "backup", FALSE)

\* the backoff timer fires
TimerFire(i) ==
    \E id \in inv[i].timers :
        /\ inv' = [inv EXCEPT ![i] = Fire(inv[i], id)]
        /\ UNCHANGED <<args, act, script, modal>>

Next ==
    \/ \E i \in Invocations : Invoke(i)
    \/ \E i \in Invocations : PrimaryResolve(i)
    \/ \E i \in Invocations : PrimaryReject(i)
    \/ \E i \in Invocations : BackupResolve(i)
    \/ \E i \in Invocations : BackupReject(i)
    \/ \E i \in Invocations : TimerFire(i)

Spec == Init /\ [][Next]_vars

\* what the two concurrent callers pass
ConcurrentArgs ==
    [entry        : {"withAIRetry"},
     maxAttempts  : {<<1>>, <<2>>},
     delayMs      : {<<>>},
     temperatures : {<<<<5, 7>>>>},
     backupModel  : {"null", "callerBackup"},
     model        : {"undefined"}]
    \cup
    [entry        : {"generateObjectWithAIRetry"},
     maxAttempts  : {<<>>},
     delayMs      : {<<>>},
     temperatures : {<<>>},
     backupModel  : {"undefined"},
     model        : {"undefined"}]

InitConcurrent ==
    /\ args \in [{1, 2} -> ConcurrentArgs]
    /\ inv = [i \in {1, 2} |-> Idle]
    /\ act = NoCaller
    /\ script = NoScript
    /\ modal = NoModal

\* two invocations whose awaits interleave in any order
SpecConcurrent == InitConcurrent /\ [][Next]_vars

\* an underlying call in flight settles, one way or the other
CallSettles ==
    \E i \in Invocations :
        PrimaryResolve(i) \/ PrimaryReject(i) \/ BackupResolve(i) \/ BackupReject(i)

\* a pending backoff timer fires
TimerFires == \E i \in Invocations : TimerFire(i)

\* the invocations, with every underlying call settling and every timer firing
SpecLive == Spec /\ WF_vars(CallSettles) /\ WF_vars(TimerFires)

---------------------------------------------------------------------------
(* Reading an invocation's history *)

Terminal(s) == s.pc \in {"returned", "thrown"}

\* the places of the history where an underlying call of the given role starts
CallsAt(s, role) == {k \in DOMAIN s.trace : s.trace[k].ev = "call" /\ s.trace[k].role = role}

\* the primary calls, in the order they were made
PrimaryCalls(s) == SelectSeq(s.trace, LAMBDA e : e.ev = "call" /\ e.role = "primary")

\* the places where call id settled as ev ("resolve" or "reject")
SettledAt(s, id, ev) == {k \in DOMAIN s.trace : s.trace[k].ev = ev /\ s.trace[k].n = id}

Failed(s, id) == SettledAt(s, id, "reject") # {}

Min(a, b) == IF a <= b THEN a ELSE b

\* what the caller configured, read from the arguments and the documented defaults
ConfiguredTemperatures(a) ==
    IF a.entry = "generateObjectWithAIRetry" THEN <<5, 7, 9, 3>>
    ELSE IF a.temperatures = <<>> THEN <<5, 7, 9>> ELSE a.temperatures[1]

ConfiguredDelayMs(a) == IF a.delayMs = <<>> THEN 1000 ELSE a.delayMs[1]

---------------------------------------------------------------------------
(* C1 *)

\* C1: once a primary call has resolved, the invocation has returned that
\* call's value and the resolution is the last thing that happened in it: no
\* further primary or backup call, no notification and no backoff wait follow,
\* and nothing is left pending.
C1_SuccessShortCircuits ==
    \A i \in Invocations :
        LET s == inv[i]
        IN  \A k \in DOMAIN s.trace :
                (s.trace[k].ev = "resolve" /\ s.trace[k].role = "primary")
                => /\ k = Len(s.trace)
                   /\ s.pc = "returned"
                   /\ s.result = s.trace[k].n
                   /\ s.calls = {}
                   /\ s.timers = {}

\* the second primary attempt succeeded while the list and maxAttempts allowed a
\* third one and a backup model was configured
C1_Witness ==
    \E i \in Invocations :
        LET s == inv[i]
        IN  /\ s.pc = "returned"
            /\ Len(PrimaryCalls(s)) = 2
            /\ s.trace[s.result].role = "primary"
            /\ s.maxAttempts >= 3
            /\ Len(s.temperatures) >= 3
            /\ Truthy(s.backupModel)

---------------------------------------------------------------------------
(* C2 *)

\* C2: in a finished invocation that had a backup model in effect and made at
\* least one primary attempt, the backup model was called if and only if every
\* primary attempt failed.  (The code calls it only from the catch of attempt
\* number maxAttempts.)
C2_FallbackIffAllPrimariesFailed ==
    \A i \in Invocations :
        LET s == inv[i]
        IN  (Terminal(s) /\ Truthy(s.backupModel) /\ CallsAt(s, "primary") # {})
            => (CallsAt(s, "backup") # {}
                <=> \A k \in CallsAt(s, "primary") : Failed(s, k))

---------------------------------------------------------------------------
(* C3 *)

\* C3: the i-th primary call of an invocation carries the i-th element of the
\* configured temperature list; there are never more primary calls than
\* min(length of the list, maxAttempts), and an invocation that throws has made
\* exactly that many.
C3_TemperatureOrder ==
    \A i \in Invocations :
        LET s     == inv[i]
            temps == ConfiguredTemperatures(args[i])
            P     == PrimaryCalls(s)
            limit == Min(Len(temps), s.maxAttempts)
        IN  /\ Len(P) <= limit
            /\ \A j \in 1..Len(P) : P[j].temp = temps[j] /\ P[j].n = j
            /\ s.pc = "thrown" => Len(P) = limit

\* three primary attempts were made over a list whose elements differ
C3_Witness ==
    \E i \in Invocations :
        LET s == inv[i]
            P == PrimaryCalls(s)
        IN  /\ args[i].entry = "withAIRetry"
            /\ args[i].temperatures # <<>>
            /\ Len(P) = 3
            /\ P[1].temp # P[2].temp
            /\ P[2].temp # P[3].temp

---------------------------------------------------------------------------
(* C4 *)

\* what a frame does next, with the cause of the failure left out: the error
\* message kept in lastError, reported in the terminal error and written in
\* the history
StepOf(s) ==
    [pc |-> s.pc, it |-> s.it, attemptCount |-> s.attemptCount,
     awaiting |-> s.awaiting, calls |-> s.calls, timers |-> s.timers,
     result |-> s.result, attempts |-> s.error.attempts, backup |-> s.error.backup,
     events |-> [k \in DOMAIN s.trace |->
                    <<s.trace[k].ev, s.trace[k].role, s.trace[k].temp,
                      s.trace[k].model, s.trace[k].n>>]]

\* C4: a value returned by generateObjectWithAIRetry is the object of one of
\* its underlying calls, and that call's output passed the schema; and
\* whenever a call is in flight, an output that fails the schema leads to the
\* same next step (next temperature and backoff, backup call or terminal
\* error) as a network failure of that call.
C4_OnlyValidatedObjects ==
    \A i \in Invocations :
        LET s == inv[i]
        IN  s.entry = "generateObjectWithAIRetry"
            => /\ s.pc = "returned"
                  => /\ s.result \in DOMAIN s.trace
                     /\ s.trace[s.result].ev = "call"
                     /\ \E k \in SettledAt(s, s.result, "resolve") : s.trace[k].used = "valid"
               /\ \A k \in DOMAIN s.trace :
                     s.trace[k].ev = "resolve" => s.trace[k].used = "valid"
               /\ \A id \in s.calls :
                     StepOf(Settle(s, id, "invalid", Fn(s.entry, "invalid")))
                       = StepOf(Settle(s, id, "network", Fn(s.entry, "network")))

\* generateObjectWithAIRetry returned the object of its third attempt after an
\* output that failed the schema and a network failure
C4_Witness ==
    \E i \in Invocations :
        LET s == inv[i]
        IN  /\ s.entry = "generateObjectWithAIRetry"
            /\ s.pc = "returned"
            /\ s.trace[s.result].n = 3
            /\ \E k \in DOMAIN s.trace : s.trace[k].ev = "reject" /\ s.trace[k].used = "invalid"
            /\ \E k \in DOMAIN s.trace : s.trace[k].ev = "reject" /\ s.trace[k].used = "network"

---------------------------------------------------------------------------
(* C5 *)

\* C5: an invocation that made a call and has thrown is one in which every
\* call made has failed, no further primary attempt is permitted (the list or
\* maxAttempts is used up) and no backup call is permitted (none is in effect,
\* or it was made).
C5_ThrowsOnlyOnExhaustion ==
    \A i \in Invocations :
        LET s == inv[i]
        IN  (s.pc = "thrown" /\ CallsAt(s, "primary") # {})
            => /\ \A k \in CallsAt(s, "primary") \cup CallsAt(s, "backup") : Failed(s, k)
               /\ Len(PrimaryCalls(s)) = Min(Len(s.temperatures), s.maxAttempts)
               /\ Truthy(s.backupModel) => CallsAt(s, "backup") # {}

---------------------------------------------------------------------------
(* C6 *)

\* C6: the terminal error of an invocation that made a call says ' and backup
\* model' if and only if the backup model was called in that invocation.
C6_ErrorTellsFallback ==
    \A i \in Invocations :
        LET s == inv[i]
        IN  (s.pc = "thrown" /\ CallsAt(s, "primary") # {})
            => (s.error.backup <=> CallsAt(s, "backup") # {})

---------------------------------------------------------------------------
(* C7 *)

\* C7: generateObjectWithAIRetry gives no maxAttempts, so the attempt limit is
\* the length of its temperature list: once every primary call has failed (the
\* backup is called, or the error is thrown) each of 0.5, 0.7, 0.9 and 0.3 has
\* had its one primary attempt, in that order.
C7_DefaultLimitIsListLength ==
    \A i \in Invocations :
        LET s == inv[i]
            P == PrimaryCalls(s)
        IN  (args[i].entry = "generateObjectWithAIRetry" /\ s.pc # "idle")
            => ((s.pc = "thrown" \/ CallsAt(s, "backup") # {})
                => [j \in 1..Len(P) |-> P[j].temp] = <<5, 7, 9, 3>>)

---------------------------------------------------------------------------
(* C8 *)

\* the backup model in effect: the caller's, or the entry point's default
EffectiveBackupModel(a) ==
    IF a.backupModel # "undefined" THEN a.backupModel
    ELSE IF a.entry = "generateObjectWithAIRetry"
         THEN "anthropic:claude-sonnet-4-20250514"
         ELSE "groq:meta-llama/llama-4-scout-17b-16e-instruct"

\* C8 as claimed: an invocation whose caller omitted backupModel makes no
\* backup call.
C8_NoFallbackWhenOmitted ==
    \A i \in Invocations :
        args[i].backupModel = "undefined" => CallsAt(inv[i], "backup") = {}

\* C8 as amended: a backup call is made only with a truthy backup model in
\* effect, which is the caller's or, when the caller omits it, the default of
\* the entry point.  A caller that passes a falsy backupModel gets no backup
\* call, and the terminal error is thrown as soon as attempt number maxAttempts
\* has failed; a caller that omits it gets the backup call, with the default
\* model, as soon as attempt number maxAttempts has failed.
C8_FallbackOnlyWithModelInEffect ==
    \A i \in Invocations :
        LET s == inv[i]
        IN  /\ \A k \in CallsAt(s, "backup") :
                  /\ s.trace[k].model = EffectiveBackupModel(args[i])
                  /\ Truthy(s.trace[k].model)
            /\ args[i].backupModel = "null" => CallsAt(s, "backup") = {}
            /\ args[i].backupModel = "null"
               => \A k \in DOMAIN s.trace :
                     (/\ s.trace[k].ev = "reject"
                      /\ s.trace[s.trace[k].n].n = s.maxAttempts)
                     => k = Len(s.trace) /\ s.pc = "thrown"
            /\ args[i].backupModel = "undefined"
               => \A k \in DOMAIN s.trace :
                     (/\ s.trace[k].ev = "reject"
                      /\ s.trace[k].role = "primary"
                      /\ s.trace[s.trace[k].n].n = s.maxAttempts)
                     => \E b \in CallsAt(s, "backup") :
                           b = k + 1 /\ s.trace[b].model = EffectiveBackupModel(args[i])

\* the caller omitted backupModel, every primary attempt failed and the default
\* backup model was called
C8_Witness ==
    \E i \in Invocations :
        LET s == inv[i]
        IN  /\ args[i].backupModel = "undefined"
            /\ Len(PrimaryCalls(s)) = 3
            /\ \E b \in CallsAt(s, "backup") : s.trace[b].model = EffectiveBackupModel(args[i])

---------------------------------------------------------------------------
(* C9 *)

\* C9: primary attempt i+1 starts right when a timer of delayMs * i fires, and
\* that timer was set right at the failure of primary attempt i (the
\* notification only in between): the history before the call of attempt i+1
\* reads reject of attempt i, notify, sleep delayMs * i, wake.
C9_LinearBackoff ==
    \A i \in Invocations :
        LET s == inv[i]
            d == ConfiguredDelayMs(args[i])
        IN  \A k \in CallsAt(s, "primary") :
                s.trace[k].n >= 2
                => /\ k >= 6
                   /\ s.trace[k - 1].ev = "wake" /\ s.trace[k - 1].n = k - 2
                   /\ s.trace[k - 2].ev = "sleep"
                   /\ s.trace[k - 2].n = d * (s.trace[k].n - 1)
                   /\ s.trace[k - 3].ev = "notify"
                   /\ s.trace[k - 4].ev = "reject" /\ s.trace[k - 4].role = "primary"
                   /\ s.trace[s.trace[k - 4].n].n = s.trace[k].n - 1

\* a fourth primary attempt was made, after waits of delayMs, 2 * delayMs and
\* 3 * delayMs
C9_Witness ==
    \E i \in Invocations :
        LET s == inv[i]
            d == ConfiguredDelayMs(args[i])
        IN  /\ \E k \in CallsAt(s, "primary") : s.trace[k].n = 4
            /\ \E k \in DOMAIN s.trace : s.trace[k].ev = "sleep" /\ s.trace[k].n = d
            /\ \E k \in DOMAIN s.trace : s.trace[k].ev = "sleep" /\ s.trace[k].n = 2 * d
            /\ \E k \in DOMAIN s.trace : s.trace[k].ev = "sleep" /\ s.trace[k].n = 3 * d

---------------------------------------------------------------------------
(* C10 *)

\* C10: at most one underlying call is in flight, none while a backoff timer
\* is pending, and when a call starts every earlier call has been rejected and
\* every earlier timer has fired.
C10_OneCallAtATime ==
    \A i \in Invocations :
        LET s == inv[i]
        IN  /\ Cardinality(s.calls) <= 1
            /\ s.calls # {} => s.timers = {}
            /\ \A k \in DOMAIN s.trace :
                  s.trace[k].ev = "call"
                  => \A j \in 1..(k - 1) :
                        /\ s.trace[j].ev = "call"
                           => \E m \in (j + 1)..(k - 1) :
                                 s.trace[m].ev = "reject" /\ s.trace[m].n = j
                        /\ s.trace[j].ev = "sleep"
                           => \E m \in (j + 1)..(k - 1) :
                                 s.trace[m].ev = "wake" /\ s.trace[m].n = j
                        /\ s.trace[j].ev # "resolve"

\* the backup call is in flight after two failed primary attempts and one wait
C10_Witness ==
    \E i \in Invocations :
        LET s == inv[i]
        IN  /\ s.pc = "awaitBackup"
            /\ Cardinality(s.calls) = 1
            /\ Len(PrimaryCalls(s)) = 2
            /\ \E k \in DOMAIN s.trace : s.trace[k].ev = "wake"

---------------------------------------------------------------------------
(* C13 *)

\* the places of the history where an underlying call starts
AllCalls(s) == CallsAt(s, "primary") \cup CallsAt(s, "backup")

\* C13: an invocation never makes more primary calls than min(length of the
\* temperature list, maxAttempts), nor more underlying calls than that plus
\* one; with maxAttempts = 1 only the list's first temperature is tried and a
\* second call, if there is one, is the backup call.
C13_CallBudget ==
    \A i \in Invocations :
        LET s     == inv[i]
            limit == Min(Len(s.temperatures), s.maxAttempts)
        IN  s.pc # "idle"
            => /\ Cardinality(CallsAt(s, "primary")) <= limit
               /\ Cardinality(AllCalls(s)) <= limit + 1
               /\ s.maxAttempts = 1
                  => \A k \in AllCalls(s) :
                        IF k = 1
                        THEN s.trace[k].role = "primary" /\ s.trace[k].temp = s.temperatures[1]
                        ELSE s.trace[k].role = "backup"

\* maxAttempts = 1 with a list of three temperatures: the first attempt failed
\* and the backup model was called
C13_Witness ==
    \E i \in Invocations :
        LET s == inv[i]
        IN  /\ s.maxAttempts = 1
            /\ Len(s.temperatures) = 3
            /\ Cardinality(CallsAt(s, "primary")) = 1
            /\ CallsAt(s, "backup") # {}

---------------------------------------------------------------------------
(* C14 *)

\* the places of the history where an underlying call was rejected
Rejections(s) == {k \in DOMAIN s.trace : s.trace[k].ev = "reject"}

\* the largest element of a non-empty set of numbers
Last(S) == CHOOSE k \in S : \A j \in S : j <= k

\* C14: the cause reported by the terminal error of an invocation that made a
\* call is the message of its most recent rejection, the backup call's when
\* the backup was called and failed and the last primary attempt's otherwise
\* (a rejection with an empty message is reported as 'Unknown error').
C14_ErrorCarriesLastFailure ==
    \A i \in Invocations :
        LET s == inv[i]
        IN  (s.pc = "thrown" /\ AllCalls(s) # {})
            => /\ Rejections(s) # {}
               /\ LET last == s.trace[Last(Rejections(s))]
                  IN  /\ s.error.cause = IF last.msg = "" THEN "Unknown error" ELSE last.msg
                      /\ last.role = IF CallsAt(s, "backup") # {} THEN "backup" ELSE "primary"
                      /\ last.role = "primary"
                         => s.trace[last.n].n = Cardinality(CallsAt(s, "primary"))

\* the backup call failed with another error than the last primary attempt
C14_Witness ==
    \E i \in Invocations :
        LET s == inv[i]
        IN  /\ s.pc = "thrown"
            /\ \E p, b \in Rejections(s) :
                  /\ s.trace[p].role = "primary"
                  /\ s.trace[b].role = "backup"
                  /\ s.trace[p].msg # s.trace[b].msg
                  /\ s.trace[b].msg # ""
                  /\ s.error.cause = s.trace[b].msg

---------------------------------------------------------------------------
(* C15 *)

\* C15: the backup model is called at most once in an invocation, at
\* temperature 0.5 and with the backup model in effect as the model argument,
\* while every primary attempt is made without a model argument; and an
\* invocation with the default options whose three attempts failed and whose
\* backup call resolved has made exactly four calls and returned the backup
\* call's value.
C15_FallbackOnceAtFixedTemperature ==
    \A i \in Invocations :
        LET s == inv[i]
        IN  /\ Cardinality(CallsAt(s, "backup")) <= 1
            /\ \A k \in CallsAt(s, "backup") :
                  /\ s.trace[k].temp = 5
                  /\ s.trace[k].model = EffectiveBackupModel(args[i])
                  /\ Truthy(s.trace[k].model)
            /\ \A k \in CallsAt(s, "primary") : s.trace[k].model = "undefined"
            /\ (/\ args[i].entry = "withAIRetry"
                /\ args[i].temperatures = <<>>
                /\ args[i].maxAttempts = <<>>
                /\ s.pc = "returned"
                /\ s.trace[s.result].role = "backup")
               => /\ Cardinality(AllCalls(s)) = 4
                  /\ [j \in 1..3 |-> PrimaryCalls(s)[j].temp] = <<5, 7, 9>>
                  /\ s.result = Last(AllCalls(s))

\* the default three temperatures failed and the backup call resolved
C15_Witness ==
    \E i \in Invocations :
        LET s == inv[i]
        IN  /\ args[i].entry = "withAIRetry"
            /\ args[i].temperatures = <<>>
            /\ args[i].maxAttempts = <<>>
            /\ s.pc = "returned"
            /\ s.trace[s.result].role = "backup"
            /\ Cardinality(AllCalls(s)) = 4

---------------------------------------------------------------------------
(* C20 *)

Started == \E i \in Invocations : inv[i].pc # "idle"

\* every invocation that was called has returned or thrown, having made at
\* most min(length of the temperature list, maxAttempts) + 1 underlying calls
Finished ==
    \A i \in Invocations :
        LET s == inv[i]
        IN  s.pc # "idle"
            => /\ Terminal(s)
               /\ Cardinality(AllCalls(s))
                    <= Min(Len(s.temperatures), s.maxAttempts) + 1

\* C20: when every underlying call settles and every backoff timer fires, an
\* invocation that was called eventually returns or throws, after at most
\* min(length of the temperature list, maxAttempts) + 1 underlying calls.
C20_Terminates == Started ~> Finished

\* an invocation has thrown after four failed primary attempts and a failed
\* backup call
C20_Witness ==
    \E i \in Invocations :
        LET s == inv[i]
        IN  /\ s.pc = "thrown"
            /\ Cardinality(CallsAt(s, "primary")) = 4
            /\ Cardinality(AllCalls(s)) = 5

---------------------------------------------------------------------------
(* C11 *)

\* what happened to an invocation from outside: the settlements of its calls
\* and the firings of its timers, in order
Inputs(s) == SelectSeq(s.trace, LAMBDA e : e.ev \in {"resolve", "reject", "wake"})

\* the frame reached from s by these inputs alone
RECURSIVE Replay(_, _)
Replay(s, inputs) ==
    IF inputs = <<>> THEN s
    ELSE LET e == Head(inputs)
         IN  Replay(IF e.ev = "wake" THEN Fire(s, e.n)
                    ELSE Settle(s, e.n, e.used, Fn(s.entry, e.used)),
                    Tail(inputs))

---------------------------------------------------------------------------
(* The call sites of generateObjectWithAIRetry, and the server actions *)

\* the functions of the repository that call generateObjectWithAIRetry
\* (src/trigger/pdf-to-images.ts holds a second copy of the first two)
CallSites ==
    {"generateCategories", "generateSituations", "structurePage1",
     "structurePageWithServices", "structureExcludedAndOtherCoveredServices",
     "checkPrice", "generateHealthcareScenarios", "calculateScenarioCosts"}

\* AI_MODELS of the scenarios route
AI_MODELS ==
    [ANALYSIS |-> "anthropic:claude-sonnet-4-20250514",
     FALLBACK |-> "groq:meta-llama/llama-4-scout-17b-16e-instruct"]

\* the model a call site passes
SiteModel(site) ==
    CASE site \in {"generateCategories", "generateSituations"}
           -> "groq:meta-llama/llama-4-scout-17b-16e-instruct"
      [] site \in {"structurePage1", "structurePageWithServices",
                   "structureExcludedAndOtherCoveredServices"}
           -> "anthropic:claude-sonnet-4-20250514"
      [] site = "checkPrice"
           -> "groq:compound-beta"
      [] OTHER
           -> AI_MODELS.ANALYSIS

\* the backupModel a call site passes: the scenarios route alone passes one
SiteBackupModel(site) ==
    IF site \in {"generateHealthcareScenarios", "calculateScenarioCosts"}
    THEN AI_MODELS.FALLBACK
    ELSE "undefined"

\* the argument object of a call site
SiteArgs(site) ==
    [entry        |-> "generateObjectWithAIRetry",
     maxAttempts  |-> <<>>,
     delayMs      |-> <<>>,
     temperatures |-> <<>>,
     backupModel  |-> SiteBackupModel(site),
     model        |-> SiteModel(site)]

\* the exported functions of src/actions/insurance-analyzer.ts
ServerActions == {"generateCategories", "generateSituations", "analyzeSituation"}

Callers == CallSites \cup ServerActions

\* the object a successful generation hands to a server action
GeneratedObject(name) ==
    IF name = "generateCategories"
    THEN [categories |-> <<"category">>, formatted_query |-> "query"]
    ELSE [situations |-> <<"situation">>]

\* what a server action returns of the generated object
ResultOf(name, object) ==
    IF name = "generateCategories" THEN object ELSE object.situations

\* JSON.parse of the text generateText produced: a value, or a SyntaxError
JSONParse(text) ==
    IF text = "json"
    THEN [ok |-> TRUE,
          value |-> [estimatedCost |-> 120, coverageDetails |-> "covered",
                     recommendations |-> <<"recommendation">>]]
    ELSE [ok |-> FALSE, value |-> "SyntaxError"]

\* the value a server action's catch block returns
DefaultOf(name) ==
    CASE name = "generateCategories"
           -> [categories |-> <<>>, formatted_query |-> ""]
      [] name = "generateSituations"
           -> <<"What if I need an MRI?", "Emergency room visit costs",
                "Monthly prescription expenses", "Specialist consultation fees",
                "Preventive care coverage">>
      [] OTHER
           -> [estimatedCost |-> 0,
               coverageDetails |-> "Unable to analyze situation at this time.",
               recommendations |-> <<"Contact your insurance provider for specific details">>]

\* Catch with the error thrown on to the caller
Catch_Rethrow(a) == [a EXCEPT !.pc = "rejected"]

\* the catch block of a server action
Catch(a) == [a EXCEPT !.pc = "resolved", !.value = DefaultOf(a.name)]

\* the frame of a caller before it is called
CallerFrame(name) == [name |-> name, pc |-> "idle", value |-> "undefined", text |-> "none"]

InitCallSites ==
    \E name \in Callers :
        /\ act = CallerFrame(name)
        /\ args = IF name \in CallSites THEN [i \in {1} |-> SiteArgs(name)] ELSE <<>>
        /\ inv = IF name \in CallSites THEN [i \in {1} |-> Idle] ELSE <<>>
        /\ script = NoScript
        /\ modal = NoModal

\* a call site runs up to its await of generateObjectWithAIRetry
SiteCall ==
    /\ act.pc = "idle"
    /\ act.name \in CallSites
    /\ act' = [act EXCEPT !.pc = "awaitRetry"]
    /\ inv' = [inv EXCEPT ![1] = Enter(args[1])]
    /\ UNCHANGED <<args, script, modal>>

\* generateObjectWithAIRetry returned: the server action returns the result
ServerActionReturns ==
    /\ act.pc = "awaitRetry"
    /\ act.name \in ServerActions
    /\ inv[1].pc = "returned"
    /\ act' = [act EXCEPT !.pc = "resolved",
                          !.value = ResultOf(act.name, GeneratedObject(act.name))]
    /\ UNCHANGED <<args, inv, script, modal>>

\* generateObjectWithAIRetry threw: the server action's catch block runs
ServerActionCatches ==
    /\ act.pc = "awaitRetry"
    /\ act.name \in ServerActions
    /\ inv[1].pc = "thrown"
    /\ act' = Catch(act)
    /\ UNCHANGED <<args, inv, script, modal>>

\* analyzeSituation runs up to its await of generateText
GenerateTextCall ==
    /\ act.pc = "idle"
    /\ act.name = "analyzeSituation"
    /\ act' = [act EXCEPT !.pc = "awaitText"]
    /\ UNCHANGED <<args, inv, script, modal>>

\* generateText resolved with a text, JSON or not: JSON.parse returns or throws
GenerateTextResolves ==
    \E text \in {"json", "prose"} :
        /\ act.pc = "awaitText"
        /\ act' = IF JSONParse(text).ok
                  THEN [act EXCEPT !.pc = "resolved", !.text = text,
                                   !.value = JSONParse(text).value]
                  ELSE Catch([act EXCEPT !.text = text])
        /\ UNCHANGED <<args, inv, script, modal>>

\* generateText rejected
GenerateTextRejects ==
    /\ act.pc = "awaitText"
    /\ act' = Catch([act EXCEPT !.text = "rejected"])
    /\ UNCHANGED <<args, inv, script, modal>>

NextCallSites ==
    \/ SiteCall
    \/ \E i \in Invocations : PrimaryResolve(i)
    \/ \E i \in Invocations : PrimaryReject(i)
    \/ \E i \in Invocations : BackupResolve(i)
    \/ \E i \in Invocations : BackupReject(i)
    \/ \E i \in Invocations : TimerFire(i)
    \/ ServerActionReturns
    \/ ServerActionCatches
    \/ GenerateTextCall
    \/ GenerateTextResolves
    \/ GenerateTextRejects

\* every caller of the repository, one at a time
SpecCallSites == InitCallSites /\ [][NextCallSites]_vars

---------------------------------------------------------------------------
(* C16 *)

\* C16: at every call site of generateObjectWithAIRetry, the model the fallback
\* call runs on differs from the model the temperature attempts ran on.
C16_FallbackModelIsSecondary ==
    act.name \in CallSites
    => \A i \in Invocations :
           LET s == inv[i]
           IN  \A b \in CallsAt(s, "backup"), p \in CallsAt(s, "primary") :
                   s.trace[b].used # s.trace[p].used

---------------------------------------------------------------------------
(* C12 *)

\* the generation under a server action has ended in an error
GenerationFailed ==
    IF act.name = "analyzeSituation"
    THEN act.text \in {"prose", "rejected"}
    ELSE inv[1].pc = "thrown"

---------------------------------------------------------------------------
(* The plan-fetching scripts and the APIs they page through *)

\* plans j+1 .. j+k of an API, as a batch
PlansFrom(j, k) == [n \in 1..k |-> j + n]

Max(a, b) == IF a >= b THEN a ELSE b

\* the page sizes a Marketplace server serves, whatever limit is asked for
ServerPageSizes == {10, 20, 50}

\* const limit = 20
FetchLimit == 20

\* let total = 112
InitialTotal == 112

\* the Marketplace API's answer to a search at an offset: the total it holds
\* and the next page of plans
MarketplaceResponse(api, offset, limit) ==
    [total |-> api.held,
     plans |-> PlansFrom(offset, Max(0, Min(Min(limit, api.page), api.held - offset)))]

\* the Marketplace API's answer with the page missing
EmptyResponse(api) == [total |-> api.held, plans |-> <<>>]

\* fetchPlans before it runs, against an API holding `held` plans
FetchPlansFrame(api) ==
    [name |-> "fetchPlans", pc |-> "start", api |-> api,
     allPlans |-> <<>>, offset |-> 0, total |-> 0, batch |-> <<>>,
     requests |-> <<>>, batches |-> <<>>, file |-> <<>>, existing |-> <<>>, writes |-> 0]

\* axios.post with the body's offset and limit, awaited
FetchPlansPost(s) ==
    [s EXCEPT !.pc = "awaitPost",
              !.requests = Append(@, [offset |-> s.offset, limit |-> FetchLimit])]

\* after the loop: the file is written when plans were fetched
FetchPlansFinish(s) ==
    IF Len(s.allPlans) > 0
    THEN [s EXCEPT !.pc = "done", !.file = <<s.allPlans>>, !.writes = @ + 1]
    ELSE [s EXCEPT !.pc = "done"]

\* while (offset < total)
FetchPlansLoop(s) == IF s.offset < s.total THEN FetchPlansPost(s) ELSE FetchPlansFinish(s)

\* the response of the awaited post: the total, the break on an empty batch,
\* the concat and the awaited delay
FetchPlansOnResponse(s, res) ==
    LET t == [s EXCEPT !.total = res.total, !.batches = Append(@, res.plans)]
    IN  IF Len(res.plans) = 0 THEN FetchPlansFinish(t)
        ELSE [t EXCEPT !.allPlans = @ \o res.plans, !.batch = res.plans, !.pc = "sleeping"]

\* FetchPlansAfterDelay with the offset advanced by the limit asked for
FetchPlansAfterDelay_ByLimit(s) == FetchPlansLoop([s EXCEPT !.offset = @ + FetchLimit])

\* after the delay: offset += res.data.plans.length, and the loop's test
FetchPlansAfterDelay(s) == FetchPlansLoop([s EXCEPT !.offset = @ + Len(s.batch)])

\* const pageSize = 20
FinderPageSize == 20

\* the Finder API's answer to a request for a page, parsed: the plans of the
\* page and the TotalCount or Total element, when the response carries one
FinderResponse(api, pageNumber, pageSize) ==
    LET first == (pageNumber - 1) * pageSize
    IN  [plans |-> PlansFrom(first, Max(0, Min(pageSize, api.held - first))),
         totalMatch |-> IF api.reportsTotal THEN <<api.held>> ELSE <<>>]

\* parseXMLResponse: totalMatch ? parseInt(totalMatch[1]) : plans.length
parseXMLResponse(res) ==
    [plans |-> res.plans,
     totalPlans |-> IF res.totalMatch # <<>> THEN res.totalMatch[1] ELSE Len(res.plans)]

\* fetchHealthcareFinderPlans before it runs
FinderFrame(api) ==
    [name |-> "fetchHealthcareFinderPlans", pc |-> "start", api |-> api,
     allPlans |-> <<>>, currentPage |-> 1, totalPlans |-> 0,
     requests |-> <<>>, batches |-> <<>>, file |-> <<>>, existing |-> <<>>, writes |-> 0]

\* axios.post of the XML request for currentPage, awaited
FinderPost(s) ==
    [s EXCEPT !.pc = "awaitPost",
              !.requests = Append(@, [pageNumber |-> s.currentPage,
                                      pageSize |-> FinderPageSize])]

\* after the loop: the file is written when plans were fetched
FinderFinish(s) ==
    IF Len(s.allPlans) > 0
    THEN [s EXCEPT !.pc = "done", !.file = <<s.allPlans>>, !.writes = @ + 1]
    ELSE [s EXCEPT !.pc = "done"]

\* the response of the awaited post: the parse, the total taken from page 1,
\* the break on an empty page, the concat, the break when all plans are
\* fetched or the page is short, the next page and the awaited delay
FinderOnResponse(s, res) ==
    LET parsed == parseXMLResponse(res)
        t == [s EXCEPT !.totalPlans = IF s.currentPage = 1 THEN parsed.totalPlans ELSE @,
                       !.batches = Append(@, parsed.plans)]
        u == [t EXCEPT !.allPlans = @ \o parsed.plans]
    IN  IF Len(parsed.plans) = 0 THEN FinderFinish(t)
        ELSE IF Len(u.allPlans) >= u.totalPlans \/ Len(parsed.plans) < FinderPageSize
             THEN FinderFinish(u)
             ELSE [u EXCEPT !.currentPage = @ + 1, !.pc = "sleeping"]

\* ScriptCatch saving the plans fetched before the error
ScriptCatch_SavesPartial(s) ==
    [s EXCEPT !.pc = "failed", !.file = <<s.allPlans>>, !.writes = @ + 1]

\* the catch of either script: the error is logged and the script ends
ScriptCatch(s) == [s EXCEPT !.pc = "failed"]

MarketplaceApis == [held : 0..MaxPlans, page : ServerPageSizes]

FinderApis == [held : 0..MaxPlans, reportsTotal : BOOLEAN]

\* the output file before the run: none, or the plans a previous run saved
ExistingFiles == {<<>>, <<PlansFrom(0, 1)>>}

\* a script about to run where the output file may exist
WithFile(frame, f) == [frame EXCEPT !.file = f, !.existing = f]

InitScripts ==
    /\ script \in {WithFile(FetchPlansFrame(api), f) : api \in MarketplaceApis, f \in ExistingFiles}
                  \cup {WithFile(FinderFrame(api), f) : api \in FinderApis, f \in ExistingFiles}
    /\ args = <<>>
    /\ inv = <<>>
    /\ act = NoCaller
    /\ modal = NoModal

\* fetchPlans() runs up to its first await
FetchPlansStart ==
    /\ script.name = "fetchPlans"
    /\ script.pc = "start"
    /\ script' = FetchPlansLoop([script EXCEPT !.offset = 0, !.total = InitialTotal])
    /\ UNCHANGED <<args, inv, act, modal>>

\* the Marketplace API answers with a page
FetchPlansPageArrives ==
    /\ script.name = "fetchPlans"
    /\ script.pc = "awaitPost"
    /\ script' = FetchPlansOnResponse(script,
                     MarketplaceResponse(script.api, script.offset, FetchLimit))
    /\ UNCHANGED <<args, inv, act, modal>>

\* the Marketplace API answers without plans
FetchPlansEmptyArrives ==
    /\ script.name = "fetchPlans"
    /\ script.pc = "awaitPost"
    /\ script' = FetchPlansOnResponse(script, EmptyResponse(script.api))
    /\ UNCHANGED <<args, inv, act, modal>>

\* the one-second delay of fetchPlans is over
FetchPlansDelayOver ==
    /\ script.name = "fetchPlans"
    /\ script.pc = "sleeping"
    /\ script' = FetchPlansAfterDelay(script)
    /\ UNCHANGED <<args, inv, act, modal>>

\* fetchHealthcareFinderPlans() runs up to its first await
FinderStart ==
    /\ script.name = "fetchHealthcareFinderPlans"
    /\ script.pc = "start"
    /\ script' = FinderPost(script)
    /\ UNCHANGED <<args, inv, act, modal>>

\* the Finder API answers with a page
FinderPageArrives ==
    /\ script.name = "fetchHealthcareFinderPlans"
    /\ script.pc = "awaitPost"
    /\ script' = FinderOnResponse(script,
                     FinderResponse(script.api, script.currentPage, FinderPageSize))
    /\ UNCHANGED <<args, inv, act, modal>>

\* the one-second delay of fetchHealthcareFinderPlans is over
FinderDelayOver ==
    /\ script.name = "fetchHealthcareFinderPlans"
    /\ script.pc = "sleeping"
    /\ script' = FinderPost(script)
    /\ UNCHANGED <<args, inv, act, modal>>

\* a request of either script fails (network, HTTP status, API error)
RequestFails ==
    /\ script.name # "none"
    /\ script.pc = "awaitPost"
    /\ script' = ScriptCatch(script)
    /\ UNCHANGED <<args, inv, act, modal>>

NextScripts ==
    \/ FetchPlansStart
    \/ FetchPlansPageArrives
    \/ FetchPlansEmptyArrives
    \/ FetchPlansDelayOver
    \/ FinderStart
    \/ FinderPageArrives
    \/ FinderDelayOver
    \/ RequestFails

\* one run of one script against one API
SpecScripts == InitScripts /\ [][NextScripts]_vars

\* the plans of all batches received, in order
RECURSIVE Flatten(_)
Flatten(bs) == IF bs = <<>> THEN <<>> ELSE Head(bs) \o Flatten(Tail(bs))

\* every request so far succeeded with a non-empty batch
AllBatchesNonEmpty(s) ==
    /\ s.pc # "failed"
    /\ \A j \in DOMAIN s.batches : Len(s.batches[j]) > 0

---------------------------------------------------------------------------
(* C17 *)

\* C17: in a run of fetchPlans whose requests all succeeded with non-empty
\* batches, the loop has ended only if the number of collected plans has
\* reached the total the API reported; the collected plans are the plans of
\* the batches, each once; and every request was made at the offset equal to
\* the number of plans collected before it.
C17_PaginatesToTotal ==
    LET s == script
    IN  (s.name = "fetchPlans" /\ AllBatchesNonEmpty(s))
        => /\ s.pc = "done" => /\ Len(s.allPlans) >= s.total
                               /\ s.total = s.api.held
                               /\ s.file = <<s.allPlans>>
           /\ s.allPlans = Flatten(s.batches)
           /\ \A j, k \in DOMAIN s.allPlans : s.allPlans[j] = s.allPlans[k] => j = k
           /\ \A r \in DOMAIN s.requests :
                  s.requests[r].offset = Len(Flatten(SubSeq(s.batches, 1, r - 1)))

\* fetchPlans ended after four requests to a server that serves pages of 10
\* when asked for 20, with all of the API's plans collected
C17_Witness ==
    /\ script.name = "fetchPlans"
    /\ script.pc = "done"
    /\ AllBatchesNonEmpty(script)
    /\ script.api.page < FetchLimit
    /\ Len(script.requests) = 4
    /\ Len(script.allPlans) = script.api.held

---------------------------------------------------------------------------
(* C18 *)

\* C18: a run of fetchHealthcareFinderPlans whose requests all succeeded has
\* stopped requesting pages only after collecting every plan the API holds,
\* whether or not the responses carry a TotalCount or Total element.
C18_FinderCollectsAllPlans ==
    (script.name = "fetchHealthcareFinderPlans" /\ script.pc = "done")
    => script.allPlans = PlansFrom(0, script.api.held)

---------------------------------------------------------------------------
(* RequiredHealthcareModal *)

(***************************************************************************)
(* The component's two useState cells, the two values it reads from        *)
(* useHealthcareInformation, and localStorage.  A render commits the       *)
(* state; the effects of a render run after it, each with the values of    *)
(* that render, and the state they set is committed by the next render.    *)
(* React runs the pending effects before it handles the next event.  The   *)
(* hook's code is not part of the sources: it is taken to report loading   *)
(* until it has read the stored information, and not again before the next *)
(* page load.                                                              *)
(***************************************************************************)

\* the page before its first load, in a browser whose localStorage has no
\* healthcare_modal_dismissed key; info: complete information is stored
Unloaded(info) ==
    [mounted |-> FALSE, storage |-> "null", info |-> info,
     isLoading |-> TRUE, hasCompleteInfo |-> FALSE,
     hasBeenDismissed |-> FALSE, showRequiredModal |-> FALSE,
     effects |-> {}, skipped |-> FALSE, reloads |-> 0]

\* the dependency array of the second effect
Deps(s) == <<s.isLoading, s.hasCompleteInfo, s.hasBeenDismissed>>

\* a re-render after a state change: the second effect is scheduled when one
\* of its dependencies changed
Render(old, new) ==
    [new EXCEPT !.effects = IF Deps(new) # Deps(old) THEN {"syncShow"} ELSE {}]

\* the first render: both effects are scheduled
FirstRender(s, loading) ==
    [s EXCEPT !.mounted = TRUE,
              !.isLoading = loading,
              !.hasCompleteInfo = ~loading /\ s.info,
              !.hasBeenDismissed = FALSE,
              !.showRequiredModal = FALSE,
              !.effects = {"readDismissed", "syncShow"}]

\* the effects of the last render: the read of localStorage, and the
\* setShowRequiredModal of the three conditions
RunEffects(s) ==
    Render(s,
      [s EXCEPT !.hasBeenDismissed =
                    IF "readDismissed" \in s.effects THEN s.storage = "true" ELSE @,
                !.showRequiredModal =
                    IF "syncShow" \in s.effects
                    THEN ~s.isLoading /\ ~s.hasCompleteInfo /\ ~s.hasBeenDismissed
                    ELSE @])

\* handleSkip without the localStorage.setItem
handleSkip_NotPersisted(s) ==
    Render(s, [s EXCEPT !.hasBeenDismissed = TRUE,
                        !.showRequiredModal = FALSE,
                        !.skipped = TRUE])

\* handleSkip: 'Skip for Now'
handleSkip(s) ==
    Render(s, [s EXCEPT !.storage = "true",
                        !.hasBeenDismissed = TRUE,
                        !.showRequiredModal = FALSE,
                        !.skipped = TRUE])

\* onOpenChange closing the dialog as a Dialog's handler usually does
onOpenChange_Closes(s) == [s EXCEPT !.showRequiredModal = FALSE]

\* onOpenChange={() => {}}: Escape or a click outside asks the dialog to close
onOpenChange(s) == s

InitModal ==
    /\ modal \in {Unloaded(info) : info \in BOOLEAN}
    /\ args = <<>>
    /\ inv = <<>>
    /\ act = NoCaller
    /\ script = NoScript

\* the page loads and the component renders for the first time; the hook
\* reports loading, or has the stored information at once
PageLoad ==
    \E loading \in BOOLEAN :
        /\ ~modal.mounted
        /\ modal' = FirstRender(modal, loading)
        /\ UNCHANGED <<args, inv, act, script>>

\* React runs the effects of the last render
EffectsRun ==
    /\ modal.mounted
    /\ modal.effects # {}
    /\ modal' = RunEffects(modal)
    /\ UNCHANGED <<args, inv, act, script>>

\* the hook has read the stored information
HookLoaded ==
    /\ modal.mounted
    /\ modal.effects = {}
    /\ modal.isLoading
    /\ modal' = Render(modal, [modal EXCEPT !.isLoading = FALSE,
                                            !.hasCompleteInfo = modal.info])
    /\ UNCHANGED <<args, inv, act, script>>

\* the user completes the healthcare information (updateHealthcareInfo)
InfoCompleted ==
    /\ modal.mounted
    /\ modal.effects = {}
    /\ ~modal.isLoading
    /\ ~modal.hasCompleteInfo
    /\ modal' = Render(modal, [modal EXCEPT !.info = TRUE, !.hasCompleteInfo = TRUE])
    /\ UNCHANGED <<args, inv, act, script>>

\* the user clears the healthcare information (clearHealthcareInfo)
InfoCleared ==
    /\ modal.mounted
    /\ modal.effects = {}
    /\ ~modal.isLoading
    /\ modal.hasCompleteInfo
    /\ modal' = Render(modal, [modal EXCEPT !.info = FALSE, !.hasCompleteInfo = FALSE])
    /\ UNCHANGED <<args, inv, act, script>>

\* the user clicks 'Skip for Now' in the dialog
SkipClicked ==
    /\ modal.mounted
    /\ modal.effects = {}
    /\ modal.showRequiredModal
    /\ modal' = handleSkip(modal)
    /\ UNCHANGED <<args, inv, act, script>>

\* the user presses Escape or clicks outside the dialog
CloseRequested ==
    /\ modal.mounted
    /\ modal.effects = {}
    /\ modal.showRequiredModal
    /\ modal' = onOpenChange(modal)
    /\ UNCHANGED <<args, inv, act, script>>

\* the page is left or reloaded: the component's state is gone, localStorage stays
PageUnload ==
    /\ modal.mounted
    /\ modal.reloads < MaxReloads
    /\ modal' = [Unloaded(modal.info) EXCEPT !.storage = modal.storage,
                                             !.skipped = modal.skipped,
                                             !.reloads = modal.reloads + 1]
    /\ UNCHANGED <<args, inv, act, script>>

NextModal ==
    \/ PageLoad
    \/ EffectsRun
    \/ HookLoaded
    \/ InfoCompleted
    \/ InfoCleared
    \/ SkipClicked
    \/ CloseRequested
    \/ PageUnload

SpecModal == InitModal /\ [][NextModal]_vars

---------------------------------------------------------------------------
(* C19 *)

\* the dialog is on the screen: the effects of the last render have run and
\* showRequiredModal is set
Shown == modal.mounted /\ modal.effects = {} /\ modal.showRequiredModal

---------------------------------------------------------------------------
(* C21 *)

\* the places of the history where an event of the given kind stands
EventsAt(s, ev) == {k \in DOMAIN s.trace : s.trace[k].ev = ev}

\* C21: a backoff wait stands only between a failed primary attempt and a
\* following primary attempt: the wait is set right after a primary attempt's
\* rejection and its notification, and once it is over the next thing that
\* happens is a primary call, never the fallback call and never the throw of
\* the terminal error; an invocation whose first attempt succeeded has waited
\* zero times.
C21_WaitOnlyBetweenPrimaryAttempts ==
    \A i \in Invocations :
        LET s == inv[i]
        IN  /\ \A k \in EventsAt(s, "sleep") :
                  /\ k >= 3
                  /\ s.trace[k - 1].ev = "notify"
                  /\ s.trace[k - 2].ev = "reject" /\ s.trace[k - 2].role = "primary"
            /\ \A k \in EventsAt(s, "wake") :
                  IF k = Len(s.trace)
                  THEN s.pc # "thrown"
                  ELSE s.trace[k + 1].ev = "call" /\ s.trace[k + 1].role = "primary"
            /\ \A k \in EventsAt(s, "resolve") :
                  s.trace[k].n = 1 => EventsAt(s, "sleep") = {}

---------------------------------------------------------------------------
(* C22 *)

\* C22: an invocation with a falsy backupModel and maxAttempts left at its
\* default that has thrown after its primary attempts all failed has made no
\* call but the primary attempts, has thrown right after the last attempt's
\* rejection, reports no backup model and reports as many attempts as the
\* temperature list is long.
C22_NoFallbackConfigured ==
    \A i \in Invocations :
        LET s == inv[i]
        IN  (/\ s.pc = "thrown"
             /\ ~Truthy(s.backupModel)
             /\ args[i].maxAttempts = <<>>
             /\ CallsAt(s, "primary") # {})
            => /\ CallsAt(s, "backup") = {}
               /\ s.trace[Len(s.trace)].ev = "reject"
               /\ ~s.error.backup
               /\ s.error.attempts = Len(ConfiguredTemperatures(args[i]))

---------------------------------------------------------------------------
(* C23 *)

\* C23 as stated: the attempt count of the terminal error is the number of
\* underlying calls the invocation issued.
C23_AttemptsAreAllCalls ==
    \A i \in Invocations :
        inv[i].pc = "thrown" => inv[i].error.attempts = Cardinality(AllCalls(inv[i]))

\* C23: the attempt count of the terminal error is the number of primary
\* attempts the invocation made; the fallback call, when one was issued, is
\* not counted, so the underlying calls issued are that count plus the (at
\* most one) fallback call.
C23_AttemptsArePrimaryCalls ==
    \A i \in Invocations :
        LET s == inv[i]
        IN  s.pc = "thrown"
            => /\ s.error.attempts = Cardinality(CallsAt(s, "primary"))
               /\ Cardinality(AllCalls(s))
                    = s.error.attempts + Cardinality(CallsAt(s, "backup"))
               /\ Cardinality(CallsAt(s, "backup")) <= 1

\* an invocation threw after two primary attempts and a fallback call: three
\* underlying calls, two attempts reported
C23_Witness ==
    \E i \in Invocations :
        LET s == inv[i]
        IN  /\ s.pc = "thrown"
            /\ s.error.attempts = 2
            /\ Cardinality(CallsAt(s, "backup")) = 1
            /\ Cardinality(AllCalls(s)) = 3

---------------------------------------------------------------------------
(* C24 *)

\* C24: every retry notification stands right after the rejection of a
\* primary attempt, at most one per attempt and none for attempt number
\* maxAttempts or for the fallback; and in a finished invocation every
\* notification is followed by a further primary call.
C24_NotificationMeansRetry ==
    \A i \in Invocations :
        LET s == inv[i]
        IN  /\ \A k \in EventsAt(s, "notify") :
                  /\ k >= 2
                  /\ s.trace[k - 1].ev = "reject" /\ s.trace[k - 1].role = "primary"
                  /\ s.trace[k].n < s.maxAttempts
                  /\ \A j \in EventsAt(s, "notify") : s.trace[j].n = s.trace[k].n => j = k
                  /\ Terminal(s)
                     => \E j \in CallsAt(s, "primary") : j > k
            /\ \A k \in Rejections(s) :
                  (s.trace[k].role = "primary" /\ \E j \in CallsAt(s, "primary") : j > k)
                  => s.trace[k + 1].ev = "notify"

---------------------------------------------------------------------------
(* C29 *)

\* C29: a script writes its output file at most once, and only when its loop
\* has ended without an error with at least one plan collected, the file then
\* holding the collected plans; until then, and for good when a request or a
\* parse failed, the file is as it was before the run.
C29_FileWrittenOnceAfterLoop ==
    LET s == script
    IN  s.name # "none"
        => /\ s.writes <= 1
           /\ s.writes = 1 => /\ s.pc = "done"
                              /\ Len(s.allPlans) > 0
                              /\ s.file = <<s.allPlans>>
           /\ s.writes = 0 => s.file = s.existing
           /\ s.pc = "failed" => s.writes = 0
           /\ (s.pc = "done" /\ Len(s.allPlans) > 0) => s.writes = 1

\* a request failed after two pages had been fetched, and the file a previous
\* run saved is still there
C29_Witness ==
    /\ script.name # "none"
    /\ script.pc = "failed"
    /\ Len(script.batches) = 2
    /\ Len(script.allPlans) > 0
    /\ script.existing # <<>>
    /\ script.file = script.existing

---------------------------------------------------------------------------
(* The cost-calculation route: POST, generateHealthcareScenarios and        *)
(* calculateScenarioCosts                                                   *)

\* the request bodies: not JSON, JSON that fails RequestSchema, or a valid
\* body, of which the fallback scenarios read two facts
RequestBodies ==
    [kind : {"malformed", "invalid"}, hasConditions : {FALSE}, over50 : {FALSE}]
    \cup [kind : {"valid"}, hasConditions : BOOLEAN, over50 : BOOLEAN]

\* the handler before the request arrives; invocations counts its calls of
\* generateObjectWithAIRetry, outcomes records how each scenario went
PostFrame(body) ==
    [name |-> "POST", pc |-> "idle", body |-> body, scenarios |-> <<>>,
     results |-> <<>>, outcomes |-> <<>>, invocations |-> 0,
     response |-> [status |-> 0, body |-> <<>>]]

\* the scenarios a successful generation returns
GeneratedScenarios(n) == [j \in 1..n |-> IF j = 1 THEN "scenario 1" ELSE "scenario 2+"]

\* the catch of generateHealthcareScenarios
FallbackScenarios(body) ==
    <<"Annual physical exam and routine lab work",
      "Prescription medication refills for the year",
      "Urgent care visit for minor illness",
      "Specialist consultation and follow-up",
      "Emergency room visit for acute condition">>
    \o (IF body.hasConditions
        THEN <<"Management of chronic condition with multiple appointments">> ELSE <<>>)
    \o (IF body.over50
        THEN <<"Preventive screening tests (colonoscopy, mammogram, etc.)">> ELSE <<>>)

\* the validated result calculateScenarioCosts returns
ScenarioResult(scenario) ==
    [scenario |-> scenario, estimatedAnnualCost |-> 1200, userPayment |-> 400,
     insurancePayment |-> 800, policyScore |-> "B"]

\* the result POST pushes for a scenario whose calculation failed
PlaceholderResult(scenario) ==
    [scenario |-> scenario, estimatedAnnualCost |-> 0, userPayment |-> 0,
     insurancePayment |-> 0, policyScore |-> "N/A"]

\* NextResponse.json(results)
RespondResults(a) == [a EXCEPT !.pc = "responded", !.response = [status |-> 200, body |-> a.results]]

\* OuterCatch answering every error with 400
OuterCatch_Always400(a, error) ==
    [a EXCEPT !.pc = "responded", !.response = [status |-> 400, body |-> <<>>]]

\* the catch of POST: 400 for a ZodError, 500 otherwise
OuterCatch(a, error) ==
    [a EXCEPT !.pc = "responded",
              !.response = [status |-> IF error = "ZodError" THEN 400 ELSE 500,
                            body   |-> <<>>]]

\* the for-of loop over the scenarios: the next call of calculateScenarioCosts,
\* or the response
ScenarioLoop(a) ==
    IF Len(a.results) < Len(a.scenarios)
    THEN [a EXCEPT !.pc = "awaitCosts", !.invocations = @ + 1]
    ELSE RespondResults(a)

\* results.push(result)
ScenarioDone(a) ==
    LET scenario == a.scenarios[Len(a.results) + 1]
    IN  ScenarioLoop([a EXCEPT !.results = Append(@, ScenarioResult(scenario)),
                               !.outcomes = Append(@, "ok")])

\* ScenarioFailed with the error thrown on to the catch of POST
ScenarioFailed_Aborts(a, error) == OuterCatch([a EXCEPT !.outcomes = Append(@, error)], error)

\* the catch inside the loop: the placeholder is pushed and the loop goes on
ScenarioFailed(a, error) ==
    LET scenario == a.scenarios[Len(a.results) + 1]
    IN  ScenarioLoop([a EXCEPT !.results = Append(@, PlaceholderResult(scenario)),
                               !.outcomes = Append(@, error)])

\* the frame of the retry helper for the handler's next call, if it makes one
HelperFor(a) ==
    IF a.pc \in {"awaitScenarios", "awaitCosts"}
    THEN [i \in {1} |-> Enter(args[1])]
    ELSE [i \in {1} |-> Idle]

InitCosts ==
    /\ act \in {PostFrame(body) : body \in RequestBodies}
    /\ args = [i \in {1} |-> SiteArgs("calculateScenarioCosts")]
    /\ inv = [i \in {1} |-> Idle]
    /\ script = NoScript
    /\ modal = NoModal

\* the request arrives: POST runs up to await request.json()
PostCalled ==
    /\ act.pc = "idle"
    /\ act' = [act EXCEPT !.pc = "awaitJson"]
    /\ UNCHANGED <<args, inv, script, modal>>

\* request.json() rejects: the body is not JSON
BodyMalformed ==
    /\ act.pc = "awaitJson"
    /\ act.body.kind = "malformed"
    /\ act' = OuterCatch(act, "SyntaxError")
    /\ UNCHANGED <<args, inv, script, modal>>

\* RequestSchema.parse(body) throws
BodyInvalid ==
    /\ act.pc = "awaitJson"
    /\ act.body.kind = "invalid"
    /\ act' = OuterCatch(act, "ZodError")
    /\ UNCHANGED <<args, inv, script, modal>>

\* the body passes: generateHealthcareScenarios runs up to its await of
\* generateObjectWithAIRetry
BodyValid ==
    /\ act.pc = "awaitJson"
    /\ act.body.kind = "valid"
    /\ act' = [act EXCEPT !.pc = "awaitScenarios", !.invocations = @ + 1]
    /\ inv' = HelperFor(act')
    /\ UNCHANGED <<args, script, modal>>

\* the scenarios were generated
ScenariosGenerated ==
    \E n \in 0..MaxScenarios :
        /\ act.pc = "awaitScenarios"
        /\ inv[1].pc = "returned"
        /\ act' = ScenarioLoop([act EXCEPT !.scenarios = GeneratedScenarios(n)])
        /\ inv' = HelperFor(act')
        /\ UNCHANGED <<args, script, modal>>

\* the generation of the scenarios failed: the fallback scenarios are used
ScenariosFallBack ==
    /\ act.pc = "awaitScenarios"
    /\ inv[1].pc = "thrown"
    /\ act' = ScenarioLoop([act EXCEPT !.scenarios = FallbackScenarios(act.body)])
    /\ inv' = HelperFor(act')
    /\ UNCHANGED <<args, script, modal>>

\* a scenario's costs were generated and MedicalScenarioResultSchema.parse passes
CostsCalculated ==
    /\ act.pc = "awaitCosts"
    /\ inv[1].pc = "returned"
    /\ act' = ScenarioDone(act)
    /\ inv' = HelperFor(act')
    /\ UNCHANGED <<args, script, modal>>

\* a scenario's costs were generated and MedicalScenarioResultSchema.parse throws
CostsInvalid ==
    /\ act.pc = "awaitCosts"
    /\ inv[1].pc = "returned"
    /\ act' = ScenarioFailed(act, "ZodError")
    /\ inv' = HelperFor(act')
    /\ UNCHANGED <<args, script, modal>>

\* the generation of a scenario's costs failed after retries and fallback
CostsFailed ==
    /\ act.pc = "awaitCosts"
    /\ inv[1].pc = "thrown"
    /\ act' = ScenarioFailed(act, "Error")
    /\ inv' = HelperFor(act')
    /\ UNCHANGED <<args, script, modal>>

NextCosts ==
    \/ PostCalled
    \/ BodyMalformed
    \/ BodyInvalid
    \/ BodyValid
    \/ \E i \in Invocations : PrimaryResolve(i)
    \/ \E i \in Invocations : PrimaryReject(i)
    \/ \E i \in Invocations : BackupResolve(i)
    \/ \E i \in Invocations : BackupReject(i)
    \/ \E i \in Invocations : TimerFire(i)
    \/ ScenariosGenerated
    \/ ScenariosFallBack
    \/ CostsCalculated
    \/ CostsInvalid
    \/ CostsFailed

\* one request to the cost-calculation route
SpecCosts == InitCosts /\ [][NextCosts]_vars

---------------------------------------------------------------------------
(* C25 *)

\* C25: for a body that passes validation the handler answers 200 with one
\* result per scenario, in scenario order: the calculated result where the
\* calculation succeeded and the placeholder (policyScore "N/A", zero costs)
\* where it failed or its result did not validate; while it works, the
\* results so far are those of the first scenarios, whatever failed.
C25_OneResultPerScenario ==
    act.body.kind = "valid"
    => /\ Len(act.results) = Len(act.outcomes)
       /\ Len(act.results) <= Len(act.scenarios)
       /\ \A j \in DOMAIN act.results :
              act.results[j] = IF act.outcomes[j] = "ok"
                               THEN ScenarioResult(act.scenarios[j])
                               ELSE PlaceholderResult(act.scenarios[j])
       /\ \A j \in DOMAIN act.results :
              act.outcomes[j] # "ok"
              => /\ act.results[j].policyScore = "N/A"
                 /\ act.results[j].estimatedAnnualCost = 0
                 /\ act.results[j].userPayment = 0
                 /\ act.results[j].insurancePayment = 0
       /\ act.pc = "responded"
          => /\ act.response.status = 200
             /\ act.response.body = act.results
             /\ Len(act.results) = Len(act.scenarios)

\* the handler answered 200 after the first of two generated scenarios failed
\* and the second was calculated
C25_Witness ==
    /\ act.pc = "responded"
    /\ act.response.status = 200
    /\ Len(act.scenarios) = 2
    /\ act.outcomes = <<"Error", "ok">>
    /\ act.response.body[1].policyScore = "N/A"
    /\ act.response.body[2].policyScore = "B"

---------------------------------------------------------------------------
(* C26 *)

\* C26: the handler answers 400 exactly when the body fails RequestSchema,
\* and then it has not called the retry helper and no model call was made; a
\* validation error of a scenario's result leaves the answer at 200.
C26_BadRequestIffInvalidBody ==
    act.pc = "responded"
    => /\ act.response.status = 400 <=> act.body.kind = "invalid"
       /\ act.response.status = 400
          => act.invocations = 0 /\ inv[1] = Idle /\ act.scenarios = <<>>
       /\ (\E j \in DOMAIN act.outcomes : act.outcomes[j] = "ZodError")
          => act.response.status = 200

\* the handler answered 200 although a scenario's result failed validation
C26_WitnessResultInvalid ==
    /\ act.pc = "responded"
    /\ act.response.status = 200
    /\ \E j \in DOMAIN act.outcomes : act.outcomes[j] = "ZodError"

\* the handler answered 400 to a body that fails RequestSchema
C26_Witness ==
    /\ act.pc = "responded"
    /\ act.response.status = 400
    /\ act.body.kind = "invalid"

---------------------------------------------------------------------------
(* parseSBCFile *)

\* the steps parseSBCFile awaits
ParseSteps == {"put", "text", "images", "page1", "services", "excluded"}

\* parseSBCFile before it is called; file: whether the form holds a File.
\* ok and failed record how the awaited steps went, pages is the number of
\* pages with a services table, structured the number of them structured,
\* policy the returned value when there is one.
ParseFrame(file) ==
    [name |-> "parseSBCFile", pc |-> "idle", file |-> file, pages |-> 0,
     pending |-> {}, ok |-> {}, failed |-> {}, structured |-> 0, policy |-> <<>>]

\* an await of parseSBCFile rejects, or a throw statement runs: the promise
\* of parseSBCFile rejects, there is no catch
ParseRejects(a, step) ==
    [a EXCEPT !.pc = "rejected", !.pending = {}, !.failed = @ \cup {step}]

\* the return statement: the policy assembled from all parts
ParseReturns(a) ==
    [a EXCEPT !.pc = "resolved", !.ok = @ \cup {"excluded"},
              !.policy = <<[page1 |-> TRUE, services |-> a.structured, excluded |-> TRUE]>>]

\* structurePage1 is called and awaited
ParseAwaitsPage1(a) == [a EXCEPT !.pc = "awaitPage1", !.pending = {}]

\* after page 1: Promise.all over the services pages
ParseAwaitsServices(a) == [a EXCEPT !.pc = "awaitServices", !.ok = @ \cup {"page1"}]

\* after the services pages: structureExcludedAndOtherCoveredServices is
\* called and awaited
ParseAwaitsExcluded(a, structured) ==
    [a EXCEPT !.pc = "awaitExcluded", !.ok = @ \cup {"services"}, !.structured = structured]

\* one of the two promises of the first Promise.all resolved: when it was
\* the last one, the check of pages_text and the call of structurePage1
ExtractionResolves(a, step, pages) ==
    LET b == [a EXCEPT !.pending = @ \ {step}, !.ok = @ \cup {step},
                       !.pages = IF step = "text" THEN pages ELSE @]
    IN  IF b.pending = {} THEN ParseAwaitsPage1(b) ELSE b

\* ServicesSettled going on with the pages that could be structured
ServicesSettled_AllSettled(a, frames) ==
    IF \A j \in 1..a.pages : Terminal(frames[j])
    THEN ParseAwaitsExcluded(a, Cardinality({j \in 1..a.pages : frames[j].pc = "returned"}))
    ELSE a

\* Promise.all over the services pages: it rejects as soon as one
\* structurePageWithServices has rejected and resolves when all have resolved
ServicesSettled(a, frames) ==
    IF \E j \in 1..a.pages : frames[j].pc = "thrown"
    THEN ParseRejects(a, "services")
    ELSE IF \A j \in 1..a.pages : frames[j].pc = "returned"
         THEN ParseAwaitsExcluded(a, a.pages)
         ELSE a

\* the frames of the retry helper after a step of parseSBCFile: the call of
\* structurePage1, of structurePageWithServices for every services page at
\* once, or of structureExcludedAndOtherCoveredServices
HelpersFor(a, frames) ==
    [j \in DOMAIN frames |->
        CASE a.pc \in {"awaitPage1", "awaitExcluded"}
               -> IF j = 1 THEN Enter(args[j]) ELSE Idle
          [] a.pc = "awaitServices"
               -> IF j <= a.pages THEN Enter(args[j]) ELSE Idle
          [] OTHER
               -> frames[j]]

InitParse ==
    /\ act \in {ParseFrame(file) : file \in BOOLEAN}
    /\ args = [i \in 1..MaxServicePages |-> SiteArgs("structurePageWithServices")]
    /\ inv = [i \in 1..MaxServicePages |-> Idle]
    /\ script = NoScript
    /\ modal = NoModal

\* parseSBCFile is called: the check of the file, and the upload awaited
ParseCalled ==
    /\ act.pc = "idle"
    /\ act' = IF act.file THEN [act EXCEPT !.pc = "awaitPut"] ELSE ParseRejects(act, "file")
    /\ UNCHANGED <<args, inv, script, modal>>

\* the upload resolves: text extraction and image conversion are started
PutResolves ==
    /\ act.pc = "awaitPut"
    /\ act' = [act EXCEPT !.pc = "awaitExtraction", !.ok = @ \cup {"put"},
                          !.pending = {"text", "images"}]
    /\ UNCHANGED <<args, inv, script, modal>>

\* the upload rejects
PutRejects ==
    /\ act.pc = "awaitPut"
    /\ act' = ParseRejects(act, "put")
    /\ UNCHANGED <<args, inv, script, modal>>

\* processFileWithUnstructured resolves with the pages' texts
TextExtracted ==
    \E pages \in 0..MaxServicePages :
        /\ act.pc = "awaitExtraction"
        /\ "text" \in act.pending
        /\ act' = ExtractionResolves(act, "text", pages)
        /\ inv' = HelpersFor(act', inv)
        /\ UNCHANGED <<args, script, modal>>

\* processFileWithUnstructured rejects, or resolves with undefined (an empty
\* response) and the check of pages_text throws
TextFails ==
    /\ act.pc = "awaitExtraction"
    /\ "text" \in act.pending
    /\ act' = ParseRejects(act, "text")
    /\ UNCHANGED <<args, inv, script, modal>>

\* the pdf-to-images task resolves with the image URLs
ImagesConverted ==
    /\ act.pc = "awaitExtraction"
    /\ "images" \in act.pending
    /\ act' = ExtractionResolves(act, "images", 0)
    /\ inv' = HelpersFor(act', inv)
    /\ UNCHANGED <<args, script, modal>>

\* the pdf-to-images task rejects
ImagesFail ==
    /\ act.pc = "awaitExtraction"
    /\ "images" \in act.pending
    /\ act' = ParseRejects(act, "images")
    /\ UNCHANGED <<args, inv, script, modal>>

\* structurePage1 resolved: the services pages are structured, all at once
Page1Structured ==
    /\ act.pc = "awaitPage1"
    /\ inv[1].pc = "returned"
    /\ act' = IF act.pages = 0
              THEN ParseAwaitsExcluded(ParseAwaitsServices(act), 0)
              ELSE ParseAwaitsServices(act)
    /\ inv' = HelpersFor(act', inv)
    /\ UNCHANGED <<args, script, modal>>

\* structurePage1 rejected
Page1Fails ==
    /\ act.pc = "awaitPage1"
    /\ inv[1].pc = "thrown"
    /\ act' = ParseRejects(act, "page1")
    /\ UNCHANGED <<args, inv, script, modal>>

\* the Promise.all over the services pages settles
ServicesSettle ==
    /\ act.pc = "awaitServices"
    /\ act' = ServicesSettled(act, inv)
    /\ act' # act
    /\ inv' = HelpersFor(act', inv)
    /\ UNCHANGED <<args, script, modal>>

\* structureExcludedAndOtherCoveredServices resolved: the policy is returned
ExcludedStructured ==
    /\ act.pc = "awaitExcluded"
    /\ inv[1].pc = "returned"
    /\ act' = ParseReturns(act)
    /\ UNCHANGED <<args, inv, script, modal>>

\* structureExcludedAndOtherCoveredServices rejected
ExcludedFails ==
    /\ act.pc = "awaitExcluded"
    /\ inv[1].pc = "thrown"
    /\ act' = ParseRejects(act, "excluded")
    /\ UNCHANGED <<args, inv, script, modal>>

NextParse ==
    \/ ParseCalled
    \/ PutResolves
    \/ PutRejects
    \/ TextExtracted
    \/ TextFails
    \/ ImagesConverted
    \/ ImagesFail
    \/ Page1Structured
    \/ Page1Fails
    \/ \E i \in Invocations : PrimaryResolve(i)
    \/ \E i \in Invocations : PrimaryReject(i)
    \/ \E i \in Invocations : BackupResolve(i)
    \/ \E i \in Invocations : BackupReject(i)
    \/ \E i \in Invocations : TimerFire(i)
    \/ ServicesSettle
    \/ ExcludedStructured
    \/ ExcludedFails

\* one call of parseSBCFile
SpecParse == InitParse /\ [][NextParse]_vars

---------------------------------------------------------------------------
(* C27 *)

\* C27: parseSBCFile has returned a policy only if the upload, the text
\* extraction, the image conversion, the structuring of page 1, of every
\* services page and of the excluded and other covered services all
\* succeeded, and the policy then holds every services page; once one of
\* them has failed parseSBCFile has rejected and there is no policy; while
\* the services pages are structured each runs its own retry sequence.
C27_AllOrNothing ==
    /\ act.policy # <<>>
       => /\ act.pc = "resolved"
          /\ act.ok = ParseSteps
          /\ act.failed = {}
          /\ act.policy[1].services = act.pages
    /\ act.pc = "resolved" => act.policy # <<>>
    /\ act.failed # {} => act.pc = "rejected" /\ act.policy = <<>>
    /\ act.pc = "awaitExcluded" => act.structured = act.pages
    /\ act.pc = "awaitServices"
       => \A j \in 1..act.pages :
              inv[j].pc # "idle" /\ inv[j] = Replay(Enter(args[j]), Inputs(inv[j]))

\* parseSBCFile rejected because one of two services pages could not be
\* structured while the other was
C27_Witness ==
    /\ act.pc = "rejected"
    /\ act.failed = {"services"}
    /\ act.pages = 2
    /\ \E j, k \in 1..2 : inv[j].pc = "thrown" /\ inv[k].pc = "returned"
    /\ act.policy = <<>>

---------------------------------------------------------------------------
(* PolicyAnalysis *)

\* the names of the categories a response holds, and the search texts typed
CategoryNames == {"dental", "vision"}
SearchTexts == {" ", "dental"}

\* String.prototype.trim on the search texts
Trim(text) == IF text = " " THEN "" ELSE text

\* a query: the breadcrumb path or search text, and the network focus
Query(about, settings) == [about |-> about, inNetwork |-> settings.isInNetwork]

\* the categories state before any response
NoCategories == [from |-> 0, query |-> Query(<<>>, [isInNetwork |-> TRUE]), items |-> {}]

\* the component before it is mounted; policy: whether usePolicy holds one.
\* requests and situationRequests are the server actions in flight, issued
\* counts the generateCategories calls made.
AnalysisFrame(policy) ==
    [name |-> "PolicyAnalysis", pc |-> "unmounted", policy |-> policy,
     settings |-> [isInNetwork |-> TRUE],
     categories |-> NoCategories, loading |-> FALSE, breadcrumbs |-> <<>>,
     situationSuggestions |-> 0, situationLoading |-> FALSE,
     requests |-> {}, situationRequests |-> {}, issued |-> 0]

\* fetchSituations up to its await
fetchSituations(a, id) ==
    IF ~a.policy THEN a
    ELSE [a EXCEPT !.situationLoading = TRUE, !.situationRequests = @ \cup {id}]

\* setLoading(true), setBreadcrumbs and the call of generateCategories
IssueCategories(a, crumbs, query, origin) ==
    [a EXCEPT !.loading = TRUE, !.breadcrumbs = crumbs, !.issued = @ + 1,
              !.requests = @ \cup {[id |-> a.issued + 1, query |-> query, origin |-> origin]}]

\* the effect on mount and on a change of settings
LoadEffect(a) ==
    IF ~a.policy THEN a
    ELSE fetchSituations(
             IssueCategories(a, <<>>, Query(<<"overall coverage">>, a.settings), "effect"),
             a.issued + 1)

\* the continuation of a generateCategories call: setCategories with the
\* response or with [] after a rejection, setLoading(false), and in the
\* handlers the call of fetchSituations
OnCategories(a, r, ok) ==
    LET b == [a EXCEPT !.requests = @ \ {r},
                       !.categories = [from |-> r.id, query |-> r.query,
                                       items |-> IF ok THEN CategoryNames ELSE {}],
                       !.loading = FALSE]
    IN  IF r.origin = "handler" THEN fetchSituations(b, r.id) ELSE b

\* the continuation of fetchSituations
OnSituations(a, id, ok) ==
    [a EXCEPT !.situationRequests = @ \ {id},
              !.situationSuggestions = IF ok THEN id ELSE 0,
              !.situationLoading = FALSE]

InitAnalysis ==
    /\ act \in {AnalysisFrame(policy) : policy \in BOOLEAN}
    /\ args = <<>>
    /\ inv = <<>>
    /\ script = NoScript
    /\ modal = NoModal

\* the component mounts and its effect runs
Mount ==
    /\ act.pc = "unmounted"
    /\ act' = LoadEffect([act EXCEPT !.pc = "mounted"])
    /\ UNCHANGED <<args, inv, script, modal>>

\* handleSettingsChange, the render and the effect that follow it
SettingsChanged ==
    \E inNetwork \in BOOLEAN :
        /\ act.pc = "mounted"
        /\ act.issued < MaxRequests
        /\ act' = LoadEffect([act EXCEPT !.settings = [isInNetwork |-> inNetwork]])
        /\ UNCHANGED <<args, inv, script, modal>>

\* handleCategorySelect up to its await; the categories are on screen only
\* while loading is false
CategorySelected ==
    \E category \in act.categories.items :
        /\ act.pc = "mounted"
        /\ ~act.loading
        /\ act.policy
        /\ act.issued < MaxRequests
        /\ Len(act.breadcrumbs) < MaxDepth
        /\ LET crumbs == Append(act.breadcrumbs, category)
           IN  act' = IssueCategories(act, crumbs, Query(crumbs, act.settings), "handler")
        /\ UNCHANGED <<args, inv, script, modal>>

\* handleBreadcrumbClick up to its await; the breadcrumbs are always on screen
BreadcrumbClicked ==
    \E index \in -1..(Len(act.breadcrumbs) - 1) :
        /\ act.pc = "mounted"
        /\ act.policy
        /\ act.issued < MaxRequests
        /\ LET crumbs == SubSeq(act.breadcrumbs, 1, index + 1)
               about == IF crumbs = <<>> THEN <<"overall coverage">> ELSE crumbs
           IN  act' = IssueCategories(act, crumbs, Query(about, act.settings), "handler")
        /\ UNCHANGED <<args, inv, script, modal>>

\* handleServerSearch up to its await; the search box is on screen only
\* while loading is false
Searched ==
    \E text \in SearchTexts :
        /\ act.pc = "mounted"
        /\ ~act.loading
        /\ act.issued < MaxRequests
        /\ act' = IF ~act.policy \/ Trim(text) = ""
                  THEN act
                  ELSE IssueCategories(act, <<>>, Query(<<Trim(text)>>, act.settings), "handler")
        /\ UNCHANGED <<args, inv, script, modal>>

\* a generateCategories call resolves
CategoriesArrive ==
    \E r \in act.requests :
        /\ act' = OnCategories(act, r, TRUE)
        /\ UNCHANGED <<args, inv, script, modal>>

\* a generateCategories call rejects
CategoriesFail ==
    \E r \in act.requests :
        /\ act' = OnCategories(act, r, FALSE)
        /\ UNCHANGED <<args, inv, script, modal>>

\* a generateSituations call resolves
SituationsArrive ==
    \E id \in act.situationRequests :
        /\ act' = OnSituations(act, id, TRUE)
        /\ UNCHANGED <<args, inv, script, modal>>

\* a generateSituations call rejects
SituationsFail ==
    \E id \in act.situationRequests :
        /\ act' = OnSituations(act, id, FALSE)
        /\ UNCHANGED <<args, inv, script, modal>>

NextAnalysis ==
    \/ Mount
    \/ SettingsChanged
    \/ CategorySelected
    \/ BreadcrumbClicked
    \/ Searched
    \/ CategoriesArrive
    \/ CategoriesFail
    \/ SituationsArrive
    \/ SituationsFail

\* one mounted PolicyAnalysis
SpecAnalysis == InitAnalysis /\ [][NextAnalysis]_vars

---------------------------------------------------------------------------
(* C28 *)

\* C28: once every generateCategories request has completed the displayed
\* categories are the response to the most recently issued query, and the
\* loading flag is true whenever a category request is still in flight.
C28_LatestResponseDisplayed ==
    /\ (act.requests = {} /\ act.issued > 0) => act.categories.from = act.issued
    /\ act.requests # {} => act.loading

============================================================================
